---------------------------- MODULE Spec2Model ----------------------------
(***************************************************************************)
(* Hungary Zone Lookup (streamlit_app.py): the hierarchical spatial        *)
(* resolver (region / branch / technical zone) and the session's           *)
(* submission log.                                                         *)
(*                                                                         *)
(* Coordinates are integers in units of 0.01 degree, relative to a fixed   *)
(* origin.  Polygons are axis-aligned rectangles with even corner          *)
(* coordinates, so centroids fall on the integer grid.  Distances are kept *)
(* as squared distances in (0.01 degree)^2; distance_km is kept in         *)
(* hundredths of a kilometre (the two decimals round(.., 2) keeps).        *)
(* Non-ASCII property keys are transliterated: bazis_id, bazis_nev, Regio. *)
(* Python None as an attribute value is the string None_; a None result or *)
(* a None dataset is the record NoneRec.                                   *)
(***************************************************************************)
EXTENDS Integers, Sequences, FiniteSets, TLC

VARIABLES
    all_data,       \* load_all_data(): regions / branches / zones datasets
    submissions,    \* st.session_state.submissions
    event,          \* the last handler that ran and its inputs
    outcome,        \* how that handler ended
    point,          \* the geocoded point of the last submission
    region_result,  \* locals of the submission handler
    branch_result,
    zone_result,
    nearest_zone,   \* the feature find_zone_for_point resolved to
    min_distance,   \* squared centroid distance of the nearest scan
    display         \* what the result columns show

vars == <<all_data, submissions, event, outcome, point, region_result,
          branch_result, zone_result, nearest_zone, min_distance, display>>

----------------------------------------------------------------------------
(* Bounds *)

MaxZones == 2
MaxLog == 1
MaxSubs == 2

(* Program constants *)

KmPerDegree == 85

----------------------------------------------------------------------------
(* Python values *)

None_ == "<None>"
NA == "N/A"
NoneRec == [none |-> TRUE]
\* float("inf"): every distance is closer
Inf == -1

Truthy(v) == v # None_ /\ v # ""

\* a or b
PyOr(a, b) == IF Truthy(a) THEN a ELSE b

\* props.get(k)
Get(props, k) == IF k \in DOMAIN props THEN props[k] ELSE None_

----------------------------------------------------------------------------
(* Geometry: shapely shape(), Polygon.contains, Polygon.centroid,          *)
(* Point.distance                                                          *)

Rect(x1, y1, x2, y2) == [minx |-> x1, miny |-> y1, maxx |-> x2, maxy |-> y2]

GeomA == Rect(0, 0, 2, 2)
GeomB == Rect(2, 0, 4, 2)
GeomC == Rect(0, 0, 4, 2)

Pt(lat, lng) == [lat |-> lat, lng |-> lng]

Points == {Pt(1, x) : x \in {1, 2, 3, 5}} \cup {Pt(y, 2) : y \in {2, 3}}

\* polygon.covers(point): interior or boundary
ContainsInclusive(g, p) ==
    /\ g.minx <= p.lng /\ p.lng <= g.maxx
    /\ g.miny <= p.lat /\ p.lat <= g.maxy

\* polygon.contains(point): the point lies in the polygon's interior; a
\* point on the boundary is not contained
Contains(g, p) ==
    /\ g.minx < p.lng /\ p.lng < g.maxx
    /\ g.miny < p.lat /\ p.lat < g.maxy

Centroid(g) == [x |-> (g.minx + g.maxx) \div 2, y |-> (g.miny + g.maxy) \div 2]

\* point.distance(centroid), squared
Distance2(p, c) == (p.lng - c.x) * (p.lng - c.x) + (p.lat - c.y) * (p.lat - c.y)


----------------------------------------------------------------------------
(* The datasets load_all_data() can return.  A dataset is NoneRec (file    *)
(* missing) or a feature collection [features |-> <<...>>].                *)

Feature(g, props) == [geometry |-> g, properties |-> props]

RegionFeatures ==
    { Feature(GeomA, [region_id |-> "R1", region_name |-> "Eszak-Alfold"]),
      Feature(GeomC, [region_id |-> "R2", region_name |-> "Kelet"]) }

BranchFeatures ==
    { Feature(GeomB, [branch_id |-> "B1", branch_name |-> "Debrecen", region_id |-> "R1"]),
      Feature(GeomC, [branch_id |-> "B2", branch_name |-> "Gyor", region_id |-> "R2"]) }

\* localized keys only
ZoneA == Feature(GeomA, [bazis_id |-> "HU-A", bazis_nev |-> "Bazis A",
                         Regio |-> "Tiszantul", created_by |-> "admin",
                         status |-> "active"])
\* legacy keys only
ZoneB == Feature(GeomB, [zone_id |-> "ZB", zone_name |-> "Zone B",
                         region_name |-> "Dunantul", status |-> "draft"])
\* both aliases, localized values non-empty
ZoneC == Feature(GeomC, [bazis_id |-> "HU-C", zone_id |-> "ZC",
                         bazis_nev |-> "Bazis C", zone_name |-> "Zone C",
                         Regio |-> "Alfold", region_name |-> "Plain",
                         created_by |-> "import", status |-> "active"])
\* both aliases, localized values empty or null
ZoneD == Feature(GeomB, [bazis_id |-> "", zone_id |-> "ZD",
                         bazis_nev |-> None_, zone_name |-> "Zone D",
                         Regio |-> "", region_name |-> "Eszak"])

ZoneFeatures == {ZoneA, ZoneB, ZoneC, ZoneD}

\* sequences without repetition of at most n features of S
Layers(S, n) ==
    UNION { { s \in [1..k -> S] : \A i, j \in 1..k : i # j => s[i] # s[j] } :
            k \in 0..n }

Datasets(S, n) == {NoneRec} \cup { [features |-> s] : s \in Layers(S, n) }

MaxRegions == 2
MaxBranches == 2

\* mock_addresses: the fallback table of load_mock_addresses()
mock_addresses ==
    [a \in {"Debrecen, Piac utca 1", "Gyor, Baross ut 1"} |->
        IF a = "Debrecen, Piac utca 1" THEN Pt(1, 1) ELSE Pt(1, 5)]

----------------------------------------------------------------------------
(* Containment scans *)

\* a scan that keeps the last containing feature instead of returning at the
\* first
RECURSIVE LastContaining(_, _, _)
LastContaining(features, p, i) ==
    IF i > Len(features) THEN 0
    ELSE LET rest == LastContaining(features, p, i + 1)
         IN  IF rest # 0 THEN rest
             ELSE IF Contains(features[i].geometry, p) THEN i ELSE 0

\* for feature in features: if shape(geometry).contains(point): return ...
\* the index of the feature the loop returns at, 0 when it falls through
RECURSIVE FirstContaining(_, _, _)
FirstContaining(features, p, i) ==
    IF i > Len(features) THEN 0
    ELSE IF Contains(features[i].geometry, p) THEN i
    ELSE FirstContaining(features, p, i + 1)

find_region_for_point(lat, lng, regions_data) ==
    IF regions_data = NoneRec THEN NoneRec
    ELSE LET i == FirstContaining(regions_data.features, Pt(lat, lng), 1)
         IN  IF i = 0 THEN NoneRec
             ELSE LET props == regions_data.features[i].properties
                  IN  [region_id   |-> Get(props, "region_id"),
                       region_name |-> Get(props, "region_name")]

\* find_branch_for_point with a fallback to the first record on a miss
find_branch_with_fallback(lat, lng, branches_data) ==
    IF branches_data = NoneRec THEN NoneRec
    ELSE LET i == FirstContaining(branches_data.features, Pt(lat, lng), 1)
             k == IF i = 0 /\ Len(branches_data.features) > 0 THEN 1 ELSE i
         IN  IF k = 0 THEN NoneRec
             ELSE LET props == branches_data.features[k].properties
                  IN  [branch_id   |-> Get(props, "branch_id"),
                       branch_name |-> Get(props, "branch_name"),
                       region_id   |-> Get(props, "region_id")]

find_branch_for_point(lat, lng, branches_data) ==
    IF branches_data = NoneRec THEN NoneRec
    ELSE LET i == FirstContaining(branches_data.features, Pt(lat, lng), 1)
         IN  IF i = 0 THEN NoneRec
             ELSE LET props == branches_data.features[i].properties
                  IN  [branch_id   |-> Get(props, "branch_id"),
                       branch_name |-> Get(props, "branch_name"),
                       region_id   |-> Get(props, "region_id")]

----------------------------------------------------------------------------
(* Nearest scan and zone detection *)

\* if distance <= min_distance
CloserOrEqual(d, m) == m = Inf \/ d <= m

\* if distance < min_distance, with min_distance = float("inf") at the start
Closer(d, m) == m = Inf \/ d < m

\* for feature in features: ... track the minimum; acc = [idx, min]
RECURSIVE NearestScan(_, _, _, _)
NearestScan(features, p, i, acc) ==
    IF i > Len(features) THEN acc
    ELSE LET distance == Distance2(p, Centroid(features[i].geometry))
         IN  IF Closer(distance, acc.min)
             THEN NearestScan(features, p, i + 1, [idx |-> i, min |-> distance])
             ELSE NearestScan(features, p, i + 1, acc)

RECURSIVE IsqrtIn(_, _, _)
IsqrtIn(n, lo, hi) ==
    IF lo >= hi THEN lo
    ELSE LET mid == (lo + hi + 1) \div 2
         IN  IF mid * mid <= n THEN IsqrtIn(n, mid, hi) ELSE IsqrtIn(n, lo, mid - 1)

\* round(min_distance * k, 2) for a squared distance d2 in (0.01 degree)^2,
\* in hundredths of a km: the integer nearest to k * sqrt(d2), which is
\* floor((floor(2 * k * sqrt(d2)) + 1) / 2); 2 * k * sqrt(d2) <= 2 * k * d2
ScaledRound(d2, k) == (IsqrtIn(4 * k * k * d2, 0, 2 * k * d2) + 1) \div 2

\* the geodesic 111 km per degree in place of the regional constant
DistanceKmWrongScale(d2) == ScaledRound(d2, 111)

\* distance_km = min_distance * 85; round(distance_km, 2)
DistanceKm(d2) == ScaledRound(d2, KmPerDegree)

\* the attributes read under the localized keys alone
ZoneAttrsLocalizedOnly(props) ==
    [zone_id     |-> Get(props, "bazis_id"),
     zone_name   |-> Get(props, "bazis_nev"),
     region_name |-> Get(props, "Regio"),
     created_by  |-> Get(props, "created_by"),
     status      |-> Get(props, "status")]

\* the attribute part of both return statements of find_zone_for_point
ZoneAttrs(props) ==
    [zone_id     |-> PyOr(Get(props, "bazis_id"), Get(props, "zone_id")),
     zone_name   |-> PyOr(Get(props, "bazis_nev"), Get(props, "zone_name")),
     region_name |-> Get(props, "Regio"),
     created_by  |-> Get(props, "created_by"),
     status      |-> Get(props, "status")]

\* the return statement of the containment step, with distance_km as the
\* nearest step has it
InsideResultWithDistance(props) ==
    [zone_id     |-> ZoneAttrs(props).zone_id,
     zone_name   |-> ZoneAttrs(props).zone_name,
     region_name |-> ZoneAttrs(props).region_name,
     created_by  |-> ZoneAttrs(props).created_by,
     status      |-> ZoneAttrs(props).status,
     method      |-> "inside",
     confidence  |-> "high",
     distance_km |-> 0]

\* the return statement of the containment step
InsideResult(props) ==
    [zone_id     |-> ZoneAttrs(props).zone_id,
     zone_name   |-> ZoneAttrs(props).zone_name,
     region_name |-> ZoneAttrs(props).region_name,
     created_by  |-> ZoneAttrs(props).created_by,
     status      |-> ZoneAttrs(props).status,
     method      |-> "inside",
     confidence  |-> "high"]

\* the return statement of the nearest step
NearestResult(props, d2) ==
    [zone_id     |-> ZoneAttrs(props).zone_id,
     zone_name   |-> ZoneAttrs(props).zone_name,
     region_name |-> ZoneAttrs(props).region_name,
     created_by  |-> ZoneAttrs(props).created_by,
     status      |-> ZoneAttrs(props).status,
     method      |-> "nearest",
     confidence  |-> "low",
     distance_km |-> DistanceKm(d2)]

\* [raised, result, feature, min]: raised is the exception that ends the
\* call, "" when it returns; feature and min are the call's locals
find_zone_for_point(lat, lng, zones_data) ==
    LET p == Pt(lat, lng)
        features == zones_data.features
        i == FirstContaining(features, p, 1)
    IN  IF i # 0
        THEN [raised  |-> "",
              result  |-> InsideResult(features[i].properties),
              feature |-> features[i],
              min     |-> Inf]
        ELSE LET near == NearestScan(features, p, 1, [idx |-> 0, min |-> Inf])
             IN  IF near.idx = 0
                 THEN \* nearest_zone is None: nearest_zone["properties"] raises
                      [raised |-> "TypeError", result |-> NoneRec,
                       feature |-> NoneRec, min |-> Inf]
                 ELSE [raised  |-> "",
                       result  |-> NearestResult(features[near.idx].properties, near.min),
                       feature |-> features[near.idx],
                       min     |-> near.min]

----------------------------------------------------------------------------
(* Geocoding.  net is what the Nominatim service answers for the address:  *)
(* a location at the first query ("exact"), None and then a location for   *)
(* the city ("city_only"), None twice ("not_found"), or an exception.      *)

NetResponses ==
    { [kind |-> k, p |-> q] : k \in {"exact", "city_only"}, q \in Points }
    \cup { [kind |-> "not_found"], [kind |-> "exception"] }

\* the service is queried only for a complete form whose address is not in
\* the mock table
Responses(name, address) ==
    IF name = "" \/ address = "" \/ address \in DOMAIN mock_addresses
    THEN {[kind |-> "not_queried"]}
    ELSE NetResponses

geocode_address(address, mock, net) ==
    IF address \in DOMAIN mock
    THEN [lat |-> mock[address].lat, lng |-> mock[address].lng,
          formatted_address |-> address \o " (Demo)",
          success |-> TRUE, method |-> "mock"]
    ELSE IF net.kind = "exact"
    THEN [lat |-> net.p.lat, lng |-> net.p.lng,
          formatted_address |-> "location.address",
          success |-> TRUE, method |-> "exact"]
    ELSE IF net.kind = "city_only"
    THEN [lat |-> net.p.lat, lng |-> net.p.lng,
          formatted_address |-> "location.address",
          success |-> TRUE, method |-> "city_only",
          note |-> "Street not found, using city center"]
    ELSE IF net.kind = "not_found"
    THEN [success |-> FALSE, error |-> "Address not found"]
    ELSE [success |-> FALSE, error |-> "Geocoding error"]

----------------------------------------------------------------------------
(* The submission handler (if submitted: ...) *)

Names == {"", "Anna"}
Addresses == {""} \cup DOMAIN mock_addresses \cup {"Budapest, Andrassy ut 1"}

\* the region name without the zone-carried fallback
RegionNameNoFallback(region, zone) ==
    IF region # NoneRec THEN region.region_name ELSE NA

\* region_result["region_name"] if region_result
\*     else (zone_result.get("region_name") or "N/A")
RegionName(region, zone) ==
    IF region # NoneRec THEN region.region_name ELSE PyOr(zone.region_name, NA)

\* the submission dict; the pass-through form fields (timestamp, product,
\* reason, date) are not carried.  latitude / longitude: round(.., 6) leaves
\* a multiple of 0.01 degree as it is.  status / created_by: the key is
\* always in zone_result, so .get(.., "N/A") gives its value, None included.
Submission(name, address, geo_result, region, branch, zone) ==
    [name              |-> name,
     address           |-> address,
     formatted_address |-> geo_result.formatted_address,
     latitude          |-> geo_result.lat,
     longitude         |-> geo_result.lng,
     region_id         |-> IF region # NoneRec THEN region.region_id ELSE NA,
     region_name       |-> RegionName(region, zone),
     branch_id         |-> IF branch # NoneRec THEN branch.branch_id ELSE NA,
     branch_name       |-> IF branch # NoneRec THEN branch.branch_name ELSE NA,
     zone_id           |-> zone.zone_id,
     zone_name         |-> zone.zone_name,
     status            |-> zone.status,
     created_by        |-> zone.created_by,
     detection_method  |-> zone.method,
     confidence        |-> zone.confidence,
     distance_km       |-> IF "distance_km" \in DOMAIN zone THEN zone.distance_km ELSE 0]

\* the result columns and the inside / outside banner
Display(region, branch, zone) ==
    [region_name |-> IF region # NoneRec THEN region.region_name
                     ELSE zone.region_name,   \* .get("region_name", "N/A"): the key is always there
     branch      |-> IF branch # NoneRec THEN branch.branch_name ELSE "Not detected",
     zone_name   |-> zone.zone_name,
     banner      |-> IF zone.method = "inside" THEN "INSIDE" ELSE "OUTSIDE"]

NoLocals ==
    /\ point' = NoneRec
    /\ region_result' = NoneRec
    /\ branch_result' = NoneRec
    /\ zone_result' = NoneRec
    /\ nearest_zone' = NoneRec
    /\ min_distance' = Inf
    /\ display' = NoneRec

\* the locals are bound once each, as the handler computes them once
submit_form(name, address, net) ==
    /\ all_data.zones # NoneRec          \* otherwise st.stop() before the form
    /\ UNCHANGED all_data
    /\ IF name = "" \/ address = ""
       THEN /\ event' = [op |-> "submit", name |-> name, address |-> address,
                         geo_success |-> FALSE]
            /\ outcome' = "invalid"
            /\ NoLocals
            /\ UNCHANGED submissions
       ELSE \E geo_result \in {geocode_address(address, mock_addresses, net)} :
            /\ event' = [op |-> "submit", name |-> name, address |-> address,
                         geo_success |-> geo_result.success]
            /\ IF ~geo_result.success
               THEN /\ outcome' = "geocode_failed"
                    /\ NoLocals
                    /\ UNCHANGED submissions
               ELSE \E region \in {find_region_for_point(geo_result.lat, geo_result.lng,
                                                         all_data.regions)},
                       branch \in {find_branch_for_point(geo_result.lat, geo_result.lng,
                                                         all_data.branches)},
                       zone   \in {find_zone_for_point(geo_result.lat, geo_result.lng,
                                                       all_data.zones)} :
                    /\ point' = Pt(geo_result.lat, geo_result.lng)
                    /\ region_result' = region
                    /\ branch_result' = branch
                    /\ zone_result' = zone.result
                    /\ nearest_zone' = zone.feature
                    /\ min_distance' = zone.min
                    /\ IF zone.raised # ""
                       THEN /\ outcome' = zone.raised
                            /\ display' = NoneRec
                            /\ UNCHANGED submissions
                       ELSE /\ outcome' = "saved"
                            /\ submissions' =
                                 Append(submissions,
                                        Submission(name, address, geo_result,
                                                   region, branch, zone.result))
                            /\ display' = Display(region, branch, zone.result)

\* "Clear All Submissions": rendered only while the log is non-empty
clear_submissions ==
    /\ all_data.zones # NoneRec
    /\ submissions # <<>>
    /\ submissions' = <<>>
    /\ event' = [op |-> "clear"]
    /\ outcome' = "cleared"
    /\ NoLocals
    /\ UNCHANGED all_data

\* the statistics column
total == Len(submissions)
inside == Cardinality({i \in 1..Len(submissions) : submissions[i].detection_method = "inside"})
outside == total - inside

----------------------------------------------------------------------------
(* Specifications *)

InitSession ==
    /\ submissions = <<>>
    /\ event = [op |-> "load"]
    /\ outcome = "loaded"
    /\ point = NoneRec
    /\ region_result = NoneRec
    /\ branch_result = NoneRec
    /\ zone_result = NoneRec
    /\ nearest_zone = NoneRec
    /\ min_distance = Inf
    /\ display = NoneRec

\* any datasets within the bounds
Init ==
    /\ all_data \in [regions  : Datasets(RegionFeatures, MaxRegions),
                     branches : Datasets(BranchFeatures, MaxBranches),
                     zones    : Datasets(ZoneFeatures, MaxZones)]
    /\ InitSession

Next ==
    \/ /\ Len(submissions) < MaxLog
       /\ \E name \in Names, address \in Addresses :
              \E net \in Responses(name, address) : submit_form(name, address, net)
    \/ clear_submissions

Spec == Init /\ [][Next]_vars

\* a long session over a few datasets
SessionData ==
    [regions  : {NoneRec, [features |-> <<>>]},
     branches : {NoneRec},
     zones    : {[features |-> <<>>], [features |-> <<ZoneA, ZoneB>>]}]

InitLog ==
    /\ all_data \in SessionData
    /\ InitSession

NextLog ==
    \/ /\ Len(submissions) < MaxSubs
       /\ \E name \in Names, address \in Addresses :
              \E net \in Responses(name, address) : submit_form(name, address, net)
    \/ clear_submissions

SpecLog == InitLog /\ [][NextLog]_vars

----------------------------------------------------------------------------
(* Properties.  Resolved: the last handler ran the three lookups; Saved:   *)
(* it also returned from find_zone_for_point and appended the submission.  *)

Resolved == outcome \in {"saved", "TypeError"}
Saved == outcome = "saved"

FeaturesOf(data) == IF data = NoneRec THEN <<>> ELSE data.features

\* positions of the records of a layer whose polygon contains the point
Hits(data) ==
    {i \in 1..Len(FeaturesOf(data)) : Contains(FeaturesOf(data)[i].geometry, point)}

IsFirst(i, S) == i \in S /\ \A j \in S : i <= j

Area(g) == (g.maxx - g.minx) * (g.maxy - g.miny)

CentroidDistance2(f) == Distance2(point, Centroid(f.geometry))

LastSubmission == submissions[Len(submissions)]

\* the point is on the closed rectangle but not in its interior
OnBoundary(g, p) ==
    /\ g.minx <= p.lng /\ p.lng <= g.maxx
    /\ g.miny <= p.lat /\ p.lat <= g.maxy
    /\ (p.lng = g.minx \/ p.lng = g.maxx \/ p.lat = g.miny \/ p.lat = g.maxy)

StrictlyInside(g, p) ==
    /\ g.minx < p.lng /\ p.lng < g.maxx
    /\ g.miny < p.lat /\ p.lat < g.maxy

OnBoundaryOf(i) == OnBoundary(all_data.zones.features[i].geometry, point)
StrictlyInsideOf(i) == StrictlyInside(all_data.zones.features[i].geometry, point)
ZonePositions == 1..Len(all_data.zones.features)

\* C1: in each layer the record returned is the one at the first position
\* whose polygon contains the point, whatever the other containing records
\* are; with no containing record the region / branch result is None.
C1_FirstMatchWins ==
    /\ Resolved =>
         /\ IF Hits(all_data.regions) = {}
            THEN region_result = NoneRec
            ELSE \E i \in Hits(all_data.regions) :
                   /\ IsFirst(i, Hits(all_data.regions))
                   /\ region_result =
                        [region_id   |-> all_data.regions.features[i].properties.region_id,
                         region_name |-> all_data.regions.features[i].properties.region_name]
         /\ IF Hits(all_data.branches) = {}
            THEN branch_result = NoneRec
            ELSE \E i \in Hits(all_data.branches) :
                   /\ IsFirst(i, Hits(all_data.branches))
                   /\ branch_result =
                        [branch_id   |-> all_data.branches.features[i].properties.branch_id,
                         branch_name |-> all_data.branches.features[i].properties.branch_name,
                         region_id   |-> all_data.branches.features[i].properties.region_id]
    /\ (Saved /\ Hits(all_data.zones) # {}) =>
         \E i \in Hits(all_data.zones) :
            /\ IsFirst(i, Hits(all_data.zones))
            /\ nearest_zone = all_data.zones.features[i]
            /\ zone_result.created_by = Get(nearest_zone.properties, "created_by")
            /\ zone_result.status = Get(nearest_zone.properties, "status")

\* two zone polygons and two region polygons contain the point; the zone
\* returned is the first although the second is smaller and its centroid is
\* at the point; the first branch polygon misses the point, the second wins
C1_Witness ==
    /\ Saved
    /\ Cardinality(Hits(all_data.regions)) = 2
    /\ Cardinality(Hits(all_data.zones)) = 2
    /\ nearest_zone = all_data.zones.features[1]
    /\ Area(all_data.zones.features[2].geometry) < Area(nearest_zone.geometry)
    /\ CentroidDistance2(all_data.zones.features[2]) = 0
    /\ region_result.region_id = all_data.regions.features[1].properties.region_id
    /\ Hits(all_data.branches) = {2}
    /\ branch_result.branch_id = all_data.branches.features[2].properties.branch_id

\* C2: the zone result is "inside" / "high" without distance_km exactly when
\* some zone polygon contains the point, "nearest" / "low" with distance_km
\* exactly when none does; a region or branch result is never produced
\* without a containing polygon.
C2_MethodMatchesContainment ==
    /\ (Resolved /\ Len(FeaturesOf(all_data.zones)) > 0) => Saved
    /\ Saved =>
         /\ zone_result.method \in {"inside", "nearest"}
         /\ zone_result.method = "inside" <=> Hits(all_data.zones) # {}
         /\ zone_result.method = "nearest" <=> Hits(all_data.zones) = {}
         /\ zone_result.method = "inside" =>
              /\ zone_result.confidence = "high"
              /\ "distance_km" \notin DOMAIN zone_result
         /\ zone_result.method = "nearest" =>
              /\ zone_result.confidence = "low"
              /\ "distance_km" \in DOMAIN zone_result
              /\ zone_result.distance_km \in Nat
    /\ Resolved =>
         /\ region_result # NoneRec => Hits(all_data.regions) # {}
         /\ branch_result # NoneRec => Hits(all_data.branches) # {}

\* no zone polygon contains the point: a nearest result with a distance,
\* while the region and branch layers, which also miss the point, give None
C2_WitnessNearest ==
    /\ Saved
    /\ Hits(all_data.zones) = {}
    /\ zone_result.method = "nearest"
    /\ zone_result.distance_km > 0
    /\ Len(FeaturesOf(all_data.regions)) > 0 /\ region_result = NoneRec
    /\ Len(FeaturesOf(all_data.branches)) > 0 /\ branch_result = NoneRec

\* C3: the nearest scan returns a record at minimum centroid distance, the
\* earliest of those at that distance.
C3_NearestIsMinimal ==
    (Saved /\ zone_result.method = "nearest") =>
        \E i \in 1..Len(all_data.zones.features) :
            /\ nearest_zone = all_data.zones.features[i]
            /\ min_distance = CentroidDistance2(all_data.zones.features[i])
            /\ \A j \in 1..Len(all_data.zones.features) :
                   /\ CentroidDistance2(all_data.zones.features[j]) >= min_distance
                   /\ j < i => CentroidDistance2(all_data.zones.features[j]) > min_distance

\* the point lies strictly outside both polygons, the two centroids are at
\* the same distance, and the first record is returned
C3_WitnessTie ==
    /\ Saved
    /\ zone_result.method = "nearest"
    /\ Len(all_data.zones.features) = 2
    /\ \A i \in 1..2 : ~StrictlyInsideOf(i) /\ ~OnBoundaryOf(i)
    /\ CentroidDistance2(all_data.zones.features[1]) =
           CentroidDistance2(all_data.zones.features[2])
    /\ nearest_zone = all_data.zones.features[1]

\* C4: on a zone layer without records the call ends with the dedicated
\* EmptyLayerError; on a zone layer with records it returns a record.
C4_EmptyLayerError ==
    Resolved =>
        IF Len(all_data.zones.features) = 0
        THEN outcome = "EmptyLayerError"
        ELSE Saved /\ nearest_zone # NoneRec

\* C5 as claimed: distance_km is non-negative and is exactly 85 times the
\* minimum centroid distance in degrees.  With distance_km in hundredths of
\* a km and min_distance the squared distance in (0.01 degree)^2 this is
\* distance_km^2 = 85^2 * min_distance.
C5_ExactScale ==
    (Saved /\ zone_result.method = "nearest") =>
        /\ zone_result.distance_km >= 0
        /\ zone_result.distance_km * zone_result.distance_km = 85 * 85 * min_distance

\* C5 as amended: distance_km is non-negative and is 85 times the minimum
\* centroid distance in degrees rounded to two decimals: it differs from the
\* exact product by at most half a hundredth of a km,
\* |2 * distance_km - 2 * 85 * sqrt(min_distance)| <= 1.
C5_RoundedScale ==
    (Saved /\ zone_result.method = "nearest") =>
        LET n == zone_result.distance_km
            exact2 == 4 * 85 * 85 * min_distance     \* (2 * 85 * sqrt(d2))^2
        IN  /\ n >= 0
            /\ min_distance >= 0
            /\ n = 0 \/ (2 * n - 1) * (2 * n - 1) <= exact2
            /\ exact2 <= (2 * n + 1) * (2 * n + 1)

\* the minimum distance is irrational in degrees, so the two decimals kept
\* are not the exact product
C5_WitnessRounded ==
    /\ Saved
    /\ zone_result.method = "nearest"
    /\ min_distance = 5
    /\ zone_result.distance_km = 190

RegionMiss == Hits(all_data.regions) = {}
BranchMiss == Hits(all_data.branches) = {}

AliasedKeys ==
    { [attr |-> "zone_id",     localized |-> "bazis_id",  legacy |-> "zone_id"],
      [attr |-> "zone_name",   localized |-> "bazis_nev", legacy |-> "zone_name"],
      [attr |-> "region_name", localized |-> "Regio",     legacy |-> "region_name"] }

\* C8 as claimed: for zone_id, zone_name and region_name the result carries
\* the localized key's value whenever the record has the localized key, and
\* the legacy key's value when it has only the legacy key.
C8_EitherAlias ==
    Saved =>
        \A a \in AliasedKeys :
            LET props == nearest_zone.properties
            IN  /\ a.localized \in DOMAIN props =>
                     zone_result[a.attr] = props[a.localized]
                /\ (a.localized \notin DOMAIN props /\ a.legacy \in DOMAIN props) =>
                     zone_result[a.attr] = props[a.legacy]

\* C8 as amended: zone_id and zone_name carry the localized key's value when
\* the record has that key with a non-empty, non-null value, and otherwise
\* the legacy key's value (None without a legacy key); region_name is read
\* from the localized key alone (None without it), whatever the record has
\* under a legacy key.
C8_AliasUnlessEmpty ==
    Saved =>
        LET props == nearest_zone.properties
        IN  /\ \A a \in {b \in AliasedKeys : b.attr # "region_name"} :
                   zone_result[a.attr] =
                       IF a.localized \in DOMAIN props
                          /\ props[a.localized] \notin {None_, ""}
                       THEN props[a.localized]
                       ELSE IF a.legacy \in DOMAIN props THEN props[a.legacy]
                       ELSE None_
            /\ zone_result.region_name =
                   IF "Regio" \in DOMAIN props THEN props.Regio ELSE None_

\* the resolved record has both keys for zone_id and zone_name and the
\* localized values win
C8_WitnessBothKeys ==
    /\ Saved
    /\ {"bazis_id", "zone_id", "bazis_nev", "zone_name"} \subseteq DOMAIN nearest_zone.properties
    /\ zone_result.zone_id = nearest_zone.properties.bazis_id
    /\ zone_result.zone_id # nearest_zone.properties.zone_id
    /\ zone_result.zone_name = nearest_zone.properties.bazis_nev

\* C9 as claimed: a point on the boundary of a zone polygon is contained by
\* it, so the result is "inside" and the zone is the earliest one that has
\* the point in its interior or on its boundary.
C9_BoundaryContained ==
    (Saved /\ \E i \in ZonePositions : OnBoundaryOf(i)) =>
        /\ zone_result.method = "inside"
        /\ \E i \in ZonePositions :
              /\ OnBoundaryOf(i) \/ StrictlyInsideOf(i)
              /\ \A j \in 1..(i - 1) : ~(OnBoundaryOf(j) \/ StrictlyInsideOf(j))
              /\ nearest_zone = all_data.zones.features[i]

\* C9 as amended: a point on the boundary of a zone polygon is not contained
\* by it.  The result is "inside" only for a zone that has the point in its
\* interior; a point on the boundary of some zones and in the interior of
\* none is resolved by the nearest scan ("nearest" / "low").
C9_BoundaryNotContained ==
    Saved =>
        /\ zone_result.method = "inside" =>
              \E i \in ZonePositions :
                  StrictlyInsideOf(i) /\ nearest_zone = all_data.zones.features[i]
        /\ ((\E i \in ZonePositions : OnBoundaryOf(i))
            /\ (\A i \in ZonePositions : ~StrictlyInsideOf(i))) =>
              /\ zone_result.method = "nearest"
              /\ zone_result.confidence = "low"

\* the point is on the edge two adjacent zones share: the nearest scan
\* resolves it, to the earlier of the two equally distant zones
C9_WitnessSharedEdge ==
    /\ Saved
    /\ Len(all_data.zones.features) = 2
    /\ all_data.zones.features[1].geometry = GeomA
    /\ all_data.zones.features[2].geometry = GeomB
    /\ point = Pt(1, 2)
    /\ OnBoundaryOf(1) /\ OnBoundaryOf(2)
    /\ zone_result.method = "nearest"
    /\ nearest_zone = all_data.zones.features[1]

CompleteForm(e) == e.op = "submit" /\ e.name # "" /\ e.address # ""

\* C10: the log grows by exactly one entry, appended at the end, on every
\* submission with a name and an address whose geocoding succeeded; it is
\* unchanged by any other submission and emptied by the clear button; every
\* entry counts as inside or as outside (nearest).
C10_LogGrowth ==
    /\ [][ /\ (CompleteForm(event') /\ event'.geo_success) =>
                /\ Len(submissions') = Len(submissions) + 1
                /\ SubSeq(submissions', 1, Len(submissions)) = submissions
           /\ (event'.op = "submit" /\ ~(CompleteForm(event') /\ event'.geo_success)) =>
                submissions' = submissions
           /\ event'.op = "clear" => submissions' = <<>> ]_vars
    /\ [](/\ inside + Cardinality({i \in 1..Len(submissions) :
                         submissions[i].detection_method = "nearest"}) = total
          /\ outside = total - inside)

============================================================================
